---- MODULE Spec2Model ----
(***************************************************************************)
(* TResNet (src/src_files/models/tresnet/tresnet_f.py): the construction   *)
(* of the module graph by TResNet.__init__ and the five factories, and     *)
(* TResNet.forward.  Modules are records; an nn.Sequential is the sequence *)
(* of its leaf modules in registration order (nested Sequentials are       *)
(* flattened, which keeps the order in which forward applies them and the  *)
(* order in which self.modules() visits them).  A tensor is abstracted to  *)
(* its channel count c, its (square) spatial side h, the sequence hist of  *)
(* operations applied to it, and src, the input sample its values come     *)
(* from.                                                                   *)
(***************************************************************************)
EXTENDS Integers, Sequences, FiniteSets, TLC

\* ------------------------------------------------------------- bounds
MaxBlocks == 2          \* layers[i] ranges over 0..MaxBlocks in direct calls
MaxWidthHalves == 2     \* width_factor ranges over 1/2, 2/2, .., MaxWidthHalves/2
MaxSideK == 2           \* input sides are 32*k, k in 1..MaxSideK
MaxNumClasses == 2      \* model_params['num_classes'] ranges over 1..MaxNumClasses

\* ------------------------------------------------- program constants
BasicBlock_expansion == 1
Bottleneck_expansion == 4
DefaultInChans == 3
DefaultNumClasses == 1000
BaseWidth == 64
MinReduce == 64

None == <<>>            \* Python None, and the absent optional submodule

expansion(block) ==
    IF block = "BasicBlock" THEN BasicBlock_expansion ELSE Bottleneck_expansion

Max(a, b) == IF a >= b THEN a ELSE b

\* int(64 * width_factor) for a positive rational width_factor num/den
IntScale(n, wf) == (n * wf.num) \div wf.den

\* ------------------------------------------------ leaf modules (torch)
Conv2d(ni, nf, kernel_size, stride, padding, groups) ==
    [op |-> "Conv2d", in_channels |-> ni, out_channels |-> nf,
     kernel_size |-> kernel_size, stride |-> stride, padding |-> padding,
     groups |-> groups]

BatchNorm2d(nf) == [op |-> "BatchNorm2d", num_features |-> nf]

AvgPool2d(kernel_size, stride, ceil_mode) ==
    [op |-> "AvgPool2d", kernel_size |-> kernel_size, stride |-> stride,
     ceil_mode |-> ceil_mode]

Linear(in_features, out_features) ==
    [op |-> "Linear", in_features |-> in_features, out_features |-> out_features]

\* ------------------------- leaf modules of .layers (not under src/)
FReLU(nf) == [op |-> "FReLU", channels |-> nf]

SEModule(channels, reduction_channels) ==
    [op |-> "SEModule", channels |-> channels,
     reduction_channels |-> reduction_channels]

AntiAliasDownsampleLayer(channels, filt_size, stride) ==
    [op |-> "AntiAliasDownsampleLayer", channels |-> channels,
     filt_size |-> filt_size, stride |-> stride]

SpaceToDepthModule == [op |-> "SpaceToDepthModule", block_size |-> 4]

FastAvgPool2d(flatten) == [op |-> "FastAvgPool2d", flatten |-> flatten]

\* -------------------------------------------------- conv2d_BN / FReLU
conv2d_BN(ni, nf, stride, kernel_size) ==
    << Conv2d(ni, nf, kernel_size, stride, kernel_size \div 2, 1),
       BatchNorm2d(nf) >>

conv2d_FReLU(ni, nf, stride, kernel_size, groups) ==
    << Conv2d(ni, nf, kernel_size, stride, kernel_size \div 2, groups),
       BatchNorm2d(nf),
       FReLU(nf) >>

\* ------------------------------------------------------------- blocks
\* A faulty BasicBlock that forgets the anti-alias branch: a strided block
\* always gets the stride-2 convolution.
BasicBlock_strided_conv(inplanes, planes, stride, downsample, use_se, anti_alias_layer) ==
    [type |-> "BasicBlock",
     conv1 |-> IF stride = 1
               THEN conv2d_FReLU(inplanes, planes, 1, 3, 1)
               ELSE conv2d_FReLU(inplanes, planes, 2, 3, 1),
     conv2 |-> conv2d_BN(planes, planes, 1, 3),
     relu |-> <<FReLU(planes)>>,
     downsample |-> downsample,
     stride |-> stride,
     se |-> IF use_se
            THEN <<SEModule(planes * BasicBlock_expansion,
                            Max((planes * BasicBlock_expansion) \div 4, MinReduce))>>
            ELSE None]

BasicBlock(inplanes, planes, stride, downsample, use_se, anti_alias_layer) ==
    [type |-> "BasicBlock",
     conv1 |-> IF stride = 1
               THEN conv2d_FReLU(inplanes, planes, 1, 3, 1)
               ELSE IF anti_alias_layer = None
                    THEN conv2d_FReLU(inplanes, planes, 2, 3, 1)
                    ELSE conv2d_FReLU(inplanes, planes, 1, 3, 1)
                         \o <<AntiAliasDownsampleLayer(planes, 3, 2)>>,
     conv2 |-> conv2d_BN(planes, planes, 1, 3),
     relu |-> <<FReLU(planes)>>,
     downsample |-> downsample,
     stride |-> stride,
     se |-> IF use_se
            THEN <<SEModule(planes * BasicBlock_expansion,
                            Max((planes * BasicBlock_expansion) \div 4, MinReduce))>>
            ELSE None]

\* A faulty Bottleneck that sizes the SE module for the expanded tensor and
\* drops the floor of 64 on the reduced width.
Bottleneck_se_expanded(inplanes, planes, stride, downsample, use_se, anti_alias_layer) ==
    [type |-> "Bottleneck",
     conv1 |-> conv2d_FReLU(inplanes, planes, 1, 1, 1),
     conv2 |-> IF stride = 1
               THEN conv2d_FReLU(planes, planes, 1, 3, 1)
               ELSE IF anti_alias_layer = None
                    THEN conv2d_FReLU(planes, planes, 2, 3, 1)
                    ELSE conv2d_FReLU(planes, planes, 1, 3, 1)
                         \o <<AntiAliasDownsampleLayer(planes, 3, 2)>>,
     conv3 |-> conv2d_BN(planes, planes * Bottleneck_expansion, 1, 1),
     relu |-> <<FReLU(planes * Bottleneck_expansion)>>,
     downsample |-> downsample,
     stride |-> stride,
     se |-> IF use_se
            THEN <<SEModule(planes * Bottleneck_expansion,
                            (planes * Bottleneck_expansion) \div 8)>>
            ELSE None]

Bottleneck(inplanes, planes, stride, downsample, use_se, anti_alias_layer) ==
    [type |-> "Bottleneck",
     conv1 |-> conv2d_FReLU(inplanes, planes, 1, 1, 1),
     conv2 |-> IF stride = 1
               THEN conv2d_FReLU(planes, planes, 1, 3, 1)
               ELSE IF anti_alias_layer = None
                    THEN conv2d_FReLU(planes, planes, 2, 3, 1)
                    ELSE conv2d_FReLU(planes, planes, 1, 3, 1)
                         \o <<AntiAliasDownsampleLayer(planes, 3, 2)>>,
     conv3 |-> conv2d_BN(planes, planes * Bottleneck_expansion, 1, 1),
     relu |-> <<FReLU(planes * Bottleneck_expansion)>>,
     downsample |-> downsample,
     stride |-> stride,
     se |-> IF use_se
            THEN <<SEModule(planes,
                            Max((planes * Bottleneck_expansion) \div 8, MinReduce))>>
            ELSE None]

\* block(...) for the class object held in `block`
NewBlock(block, inplanes, planes, stride, downsample, use_se, anti_alias_layer) ==
    IF block = "BasicBlock"
    THEN BasicBlock(inplanes, planes, stride, downsample, use_se, anti_alias_layer)
    ELSE Bottleneck(inplanes, planes, stride, downsample, use_se, anti_alias_layer)

\* ------------------------------------------------ TResNet._make_layer
\* The shortcut module built at the top of _make_layer.
MakeDownsample(self_inplanes, block, planes, stride) ==
    IF stride # 1 \/ self_inplanes # planes * expansion(block)
    THEN (IF stride = 2 THEN <<AvgPool2d(2, 2, TRUE)>> ELSE <<>>)
         \o conv2d_BN(self_inplanes, planes * expansion(block), 1, 1)
    ELSE None

\* Faulty variants of _make_layer.
\* (a) the loop starts at 0: one block too many.
_make_layer_from_zero(self_inplanes, block, planes, blocks, stride, use_se, anti_alias_layer) ==
    [layers |->
        << NewBlock(block, self_inplanes, planes, stride,
                    MakeDownsample(self_inplanes, block, planes, stride),
                    use_se, anti_alias_layer) >>
        \o [i \in 1..blocks |->
              NewBlock(block, planes * expansion(block), planes, 1, None,
                       use_se, anti_alias_layer)],
     inplanes |-> planes * expansion(block)]

\* (b) self.inplanes = planes, the expansion forgotten.
_make_layer_no_expansion(self_inplanes, block, planes, blocks, stride, use_se, anti_alias_layer) ==
    [layers |->
        << NewBlock(block, self_inplanes, planes, stride,
                    MakeDownsample(self_inplanes, block, planes, stride),
                    use_se, anti_alias_layer) >>
        \o [i \in 1..(blocks - 1) |->
              NewBlock(block, planes, planes, 1, None, use_se, anti_alias_layer)],
     inplanes |-> planes]

\* (c) the shortcut is projected only when the stage is strided.
_make_layer_stride_only(self_inplanes, block, planes, blocks, stride, use_se, anti_alias_layer) ==
    [layers |->
        << NewBlock(block, self_inplanes, planes, stride,
                    IF stride # 1
                    THEN MakeDownsample(self_inplanes, block, planes, stride)
                    ELSE None,
                    use_se, anti_alias_layer) >>
        \o [i \in 1..(blocks - 1) |->
              NewBlock(block, planes * expansion(block), planes, 1, None,
                       use_se, anti_alias_layer)],
     inplanes |-> planes * expansion(block)]

\* Returns the stage (nn.Sequential of blocks) and the new self.inplanes.
_make_layer(self_inplanes, block, planes, blocks, stride, use_se, anti_alias_layer) ==
    [layers |->
        << NewBlock(block, self_inplanes, planes, stride,
                    MakeDownsample(self_inplanes, block, planes, stride),
                    use_se, anti_alias_layer) >>
        \o [i \in 1..(blocks - 1) |->
              NewBlock(block, planes * expansion(block), planes, 1, None,
                       use_se, anti_alias_layer)],
     inplanes |-> planes * expansion(block)]

\* ------------------------------------------------------------ tensors
ShapeError == [c |-> -1, h |-> -1, hist |-> <<>>, src |-> 0]

IsTensor(t) == t.c >= 0

Did(t, opname) == [t EXCEPT !.hist = Append(@, opname)]

\* One leaf module applied to a tensor: the shape rule of the module, with a
\* mismatch of the declared channel count a shape error.
Apply(m, t) ==
    IF ~IsTensor(t) THEN ShapeError
    ELSE CASE m.op = "Conv2d" ->
                IF t.c = m.in_channels /\ t.h + 2 * m.padding >= m.kernel_size
                THEN [Did(t, m.op) EXCEPT
                        !.c = m.out_channels,
                        !.h = ((t.h + 2 * m.padding - m.kernel_size) \div m.stride) + 1]
                ELSE ShapeError
           [] m.op = "BatchNorm2d" ->
                IF t.c = m.num_features THEN Did(t, m.op) ELSE ShapeError
           [] m.op = "AvgPool2d" ->
                IF t.h >= 1
                THEN [Did(t, m.op) EXCEPT
                        !.h = IF m.ceil_mode
                              THEN ((Max(t.h - m.kernel_size, 0) + m.stride - 1) \div m.stride) + 1
                              ELSE ((t.h - m.kernel_size) \div m.stride) + 1]
                ELSE ShapeError
           [] m.op = "Linear" ->
                IF t.c = m.in_features /\ t.h = 0
                THEN [Did(t, m.op) EXCEPT !.c = m.out_features]
                ELSE ShapeError
           [] m.op = "FReLU" ->
                IF t.c = m.channels THEN Did(t, m.op) ELSE ShapeError
           [] m.op = "SEModule" ->
                IF t.c = m.channels THEN Did(t, m.op) ELSE ShapeError
           [] m.op = "AntiAliasDownsampleLayer" ->
                IF t.c = m.channels
                THEN [Did(t, m.op) EXCEPT
                        !.h = ((t.h + 2 - m.filt_size) \div m.stride) + 1]
                ELSE ShapeError
           [] m.op = "SpaceToDepthModule" ->
                IF t.h % m.block_size = 0
                THEN [Did(t, m.op) EXCEPT
                        !.c = t.c * m.block_size * m.block_size,
                        !.h = t.h \div m.block_size]
                ELSE ShapeError
           [] m.op = "FastAvgPool2d" ->
                \* flatten=True: (N, C, H, W) -> (N, C); h = 0 marks "no spatial axes"
                [Did(t, m.op) EXCEPT !.h = IF m.flatten THEN 0 ELSE 1]

\* nn.Sequential.forward; a shape error raised by a module ends the call
RECURSIVE ApplySeq(_, _)
ApplySeq(ms, t) ==
    IF ms = <<>> THEN t
    ELSE LET u == Apply(Head(ms), t)
         IN  IF IsTensor(u) THEN ApplySeq(Tail(ms), u) ELSE ShapeError

\* out += residual / out = out + residual
Add(out, residual) ==
    IF IsTensor(out) /\ IsTensor(residual) /\ out.c = residual.c /\ out.h = residual.h
    THEN Did(out, "add")
    ELSE ShapeError

\* ----------------------------------------------------- block forward
\* the shortcut branch of either block
Residual(m, x) ==
    IF m.downsample # None THEN ApplySeq(m.downsample, x) ELSE x

\* the main branch of BasicBlock.forward up to the addition
BasicBlock_main(m, x) ==
    LET out1 == ApplySeq(m.conv1, x)
        out2 == ApplySeq(m.conv2, out1)
    IN  IF m.se # None THEN ApplySeq(m.se, out2) ELSE out2

\* A faulty Bottleneck_main: the SE step moved behind conv3.
Bottleneck_main_se_last(m, x) ==
    LET out1 == ApplySeq(m.conv1, x)
        out2 == ApplySeq(m.conv2, out1)
        out3 == ApplySeq(m.conv3, out2)
    IN  IF m.se # None THEN Did(out3, "SEModule") ELSE out3

\* the main branch of Bottleneck.forward up to the addition
Bottleneck_main(m, x) ==
    LET out1 == ApplySeq(m.conv1, x)
        out2 == ApplySeq(m.conv2, out1)
        out3 == IF m.se # None THEN ApplySeq(m.se, out2) ELSE out2
    IN  ApplySeq(m.conv3, out3)

BlockMain(m, x) ==
    IF m.type = "BasicBlock" THEN BasicBlock_main(m, x) ELSE Bottleneck_main(m, x)

BasicBlock_forward(m, x) ==
    ApplySeq(m.relu, Add(BasicBlock_main(m, x), Residual(m, x)))

Bottleneck_forward(m, x) ==
    ApplySeq(m.relu, Add(Bottleneck_main(m, x), Residual(m, x)))

BlockForward(m, x) ==
    IF m.type = "BasicBlock" THEN BasicBlock_forward(m, x) ELSE Bottleneck_forward(m, x)

\* nn.Sequential.forward over the blocks of a stage
RECURSIVE StageForward(_, _)
StageForward(stage, x) ==
    IF stage = <<>> THEN x
    ELSE LET y == BlockForward(Head(stage), x)
         IN  IF IsTensor(y) THEN StageForward(Tail(stage), y) ELSE ShapeError

\* the input of block i of a stage whose input is x
StageInput(stage, i, x) == StageForward(SubSeq(stage, 1, i - 1), x)

\* -------------------------------------------------------------- state
VARIABLES
    pc,            \* position of the constructing call
    fn,            \* the callable entered: "TResNet" or a factory
    model_params,  \* the mapping handed to a factory
    args,          \* the arguments of TResNet.__init__
    inplanes,      \* self.inplanes
    planes,        \* self.planes
    obj,           \* the module objects built so far, by name
    body,          \* self.body: the names of its children, in order
    global_pool,   \* self.global_pool
    num_features,  \* self.num_features
    head,          \* self.head
    bn_weight,     \* weight of every BatchNorm2d, by path
    bn_bias,       \* bias of every BatchNorm2d, by path
    embeddings,    \* self.embeddings
    fpc,           \* position of each forward call
    fx,            \* local x of each forward call
    flogits,       \* local logits of each forward call
    fin,           \* the input sample each forward call was given
    lastIn,        \* the input sample of the call that last ran line 180
    clean          \* no other call ran line 180 since this call did

vars == << pc, fn, model_params, args, inplanes, planes, obj, body, global_pool,
           num_features, head, bn_weight, bn_bias, embeddings, fpc, fx,
           flogits, fin, lastIn, clean >>

buildVars == << inplanes, planes, obj, body, global_pool, num_features, head,
                bn_weight, bn_bias >>

fwdVars == << embeddings, fpc, fx, flogits, fin, lastIn, clean >>

Threads == {"a", "b"}

Factories == {"TResnetS", "TResnetM", "TResnetD", "TResnetL", "TResnetXL"}

BlockClasses == {"BasicBlock", "Bottleneck"}

ParamKeys == {"num_classes", "args"}

StageNames == <<"layer1", "layer2", "layer3", "layer4">>

AntiAliasClass == <<"AntiAliasDownsampleLayer">>   \* the class object, not None

One == [num |-> 2, den |-> 2]                      \* width_factor=1.0

WidthFactors == {[num |-> n, den |-> 2] : n \in 1..MaxWidthHalves}

NoArgs == [layers |-> <<>>, in_chans |-> 0, num_classes |-> 0,
           width_factor |-> One, first_two_layers |-> "BasicBlock"]

DirectArgs ==
    {[layers |-> l, in_chans |-> DefaultInChans, num_classes |-> DefaultNumClasses,
      width_factor |-> w, first_two_layers |-> b] :
        l \in [1..4 -> 0..MaxBlocks], w \in WidthFactors, b \in BlockClasses}

ParamMaps ==
    {[k \in K |-> IF k = "num_classes" THEN n ELSE 0] :
        K \in SUBSET ParamKeys, n \in 1..MaxNumClasses}

NoTensor == [c |-> 0, h |-> 0, hist |-> <<>>, src |-> 0]

Inputs(in_chans) ==
    {[c |-> in_chans, h |-> 32 * k, hist |-> <<>>, src |-> k] : k \in 1..MaxSideK}

\* the input sample k (of side 32*k) of the model under construction
InputOf(k) == [c |-> args.in_chans, h |-> 32 * k, hist |-> <<>>, src |-> k]

\* ------------------------------------------------------ self.modules()
RECURSIVE Concat(_)
Concat(ss) == IF ss = <<>> THEN <<>> ELSE Head(ss) \o Concat(Tail(ss))

SeqModules(name, i, field, ms) ==
    [j \in 1..Len(ms) |-> [type |-> ms[j].op, path |-> <<name, i, field, j>>]]

BlockModules(name, i, m) ==
    << [type |-> m.type, path |-> <<name, i, "", 0>>] >>
    \o SeqModules(name, i, "conv1", m.conv1)
    \o SeqModules(name, i, "conv2", m.conv2)
    \o (IF m.type = "Bottleneck" THEN SeqModules(name, i, "conv3", m.conv3) ELSE <<>>)
    \o SeqModules(name, i, "relu", m.relu)
    \o SeqModules(name, i, "downsample", m.downsample)
    \o SeqModules(name, i, "se", m.se)

IsStage(name) == \E k \in 1..4 : StageNames[k] = name

StageModules(name, stage) ==
    Concat([i \in 1..Len(stage) |-> BlockModules(name, i, stage[i])])

ChildModules(name) ==
    IF IsStage(name)
    THEN StageModules(name, obj[name])
    ELSE SeqModules(name, 0, name, obj[name])

\* the modules of self in the order self.modules() yields them (containers
\* that neither loop acts on are left out)
Modules ==
    Concat([k \in 1..Len(body) |-> ChildModules(body[k])])
    \o SeqModules("global_pool", 0, "global_pool", global_pool)
    \o SeqModules("head", 0, "head", head)

BNPaths(ms) == {ms[j].path : j \in {j \in 1..Len(ms) : ms[j].type = "BatchNorm2d"}}

\* a freshly constructed BatchNorm2d holds whatever the framework put there
NewBN(ms) == [p \in BNPaths(ms) |-> "framework_default"]

\* nn.init.constant_(tensor, val)
constant_(val) == IF val = 0 THEN "zeros" ELSE IF val = 1 THEN "ones" ELSE "other"

\* torch.zeros_like(tensor)
zeros_like(t) == "zeros"

\* ---------------------------------------------------------- factories
Init ==
    /\ \/ fn = "TResNet" /\ model_params = <<>> /\ args \in DirectArgs /\ pc = "init"
       \/ fn \in Factories /\ model_params \in ParamMaps /\ args = NoArgs /\ pc = "call"
    /\ inplanes = 0 /\ planes = 0
    /\ obj = <<>> /\ body = <<>> /\ global_pool = <<>> /\ head = <<>>
    /\ num_features = 0
    /\ bn_weight = <<>> /\ bn_bias = <<>>
    /\ embeddings = NoTensor
    /\ fpc = [t \in Threads |-> "idle"]
    /\ fx = [t \in Threads |-> NoTensor]
    /\ flogits = [t \in Threads |-> NoTensor]
    /\ fin = [t \in Threads |-> 0]
    /\ lastIn = 0
    /\ clean = [t \in Threads |-> FALSE]

Has(key) == key \in DOMAIN model_params

\* model = TResNet(layers=..., num_classes=num_classes, in_chans=in_chans, ...)
CallTResNet(layers_list, first_two_layers) ==
    /\ args' = [layers |-> layers_list, in_chans |-> 3,
                num_classes |-> model_params["num_classes"],
                width_factor |-> One,
                first_two_layers |-> first_two_layers]
    /\ pc' = "init"

\* model_params[key] with the key absent
RaiseKeyError == pc' = "KeyError" /\ UNCHANGED args

TResnetS ==
    /\ pc = "call" /\ fn = "TResnetS"
    /\ IF ~Has("num_classes") THEN RaiseKeyError
       ELSE IF ~Has("args") THEN RaiseKeyError
       ELSE CallTResNet(<<3, 4, 6, 3>>, "BasicBlock")
    /\ UNCHANGED << fn, model_params, buildVars, fwdVars >>

TResnetM ==
    /\ pc = "call" /\ fn = "TResnetM"
    /\ IF ~Has("num_classes") THEN RaiseKeyError
       ELSE CallTResNet(<<3, 4, 11, 3>>, "BasicBlock")
    /\ UNCHANGED << fn, model_params, buildVars, fwdVars >>

TResnetD ==
    /\ pc = "call" /\ fn = "TResnetD"
    /\ IF ~Has("num_classes") THEN RaiseKeyError
       ELSE CallTResNet(<<3, 6, 14, 3>>, "Bottleneck")
    /\ UNCHANGED << fn, model_params, buildVars, fwdVars >>

TResnetL ==
    /\ pc = "call" /\ fn = "TResnetL"
    /\ IF ~Has("num_classes") THEN RaiseKeyError
       ELSE CallTResNet(<<3, 4, 23, 3>>, "Bottleneck")
    /\ UNCHANGED << fn, model_params, buildVars, fwdVars >>

TResnetXL ==
    /\ pc = "call" /\ fn = "TResnetXL"
    /\ IF ~Has("num_classes") THEN RaiseKeyError
       ELSE CallTResNet(<<3, 8, 34, 5>>, "Bottleneck")
    /\ UNCHANGED << fn, model_params, buildVars, fwdVars >>

\* --------------------------------------------------- TResNet.__init__
\* lines 112-119: the stem
TResNet_stem ==
    /\ pc = "init"
    /\ LET p == IntScale(BaseWidth, args.width_factor)
           c1 == conv2d_FReLU(args.in_chans * 16, p, 1, 3, 1)
       IN  /\ inplanes' = p
           /\ planes' = p
           /\ obj' = ("SpaceToDepth" :> <<SpaceToDepthModule>>) @@ ("conv1" :> c1)
           /\ bn_weight' = NewBN(SeqModules("conv1", 0, "conv1", c1))
           /\ bn_bias' = NewBN(SeqModules("conv1", 0, "conv1", c1))
    /\ global_pool' = <<FastAvgPool2d(TRUE)>>
    /\ pc' = "layer1"
    /\ UNCHANGED << fn, model_params, args, body, num_features, head, fwdVars >>

\* one self._make_layer(...) call of __init__ and the binding of its result
MakeStage(k, block, mult, stride, use_se) ==
    /\ pc = StageNames[k]
    /\ LET r == _make_layer(inplanes, block, planes * mult, args.layers[k], stride,
                            use_se, AntiAliasClass)
           ms == StageModules(StageNames[k], r.layers)
       IN  /\ obj' = obj @@ (StageNames[k] :> r.layers)
           /\ inplanes' = r.inplanes
           /\ bn_weight' = bn_weight @@ NewBN(ms)
           /\ bn_bias' = bn_bias @@ NewBN(ms)
    /\ pc' = IF k < 4 THEN StageNames[k + 1] ELSE "head"
    /\ UNCHANGED << fn, model_params, args, planes, body, global_pool,
                    num_features, head, fwdVars >>

\* A faulty layer3 call: stride 1 where the stage must halve the resolution.
TResNet_layer3_unstrided == MakeStage(3, "Bottleneck", 4, 1, TRUE)

TResNet_layer1 == MakeStage(1, args.first_two_layers, 1, 1, TRUE)

TResNet_layer2 == MakeStage(2, args.first_two_layers, 2, 2, TRUE)

TResNet_layer3 == MakeStage(3, "Bottleneck", 4, 2, TRUE)

TResNet_layer4 == MakeStage(4, "Bottleneck", 8, 2, FALSE)

\* lines 130-142: body, global_pool, num_features, head
TResNet_head ==
    /\ pc = "head"
    /\ body' = <<"SpaceToDepth", "conv1", "layer1", "layer2", "layer3", "layer4">>
    /\ num_features' = (planes * 8) * Bottleneck_expansion
    /\ head' = <<Linear((planes * 8) * Bottleneck_expansion, args.num_classes)>>
    /\ pc' = "generic_init"
    /\ UNCHANGED << fn, model_params, args, inplanes, planes, obj, global_pool,
                    bn_weight, bn_bias, fwdVars >>

\* The loops of lines 145-158 visit every module once; an iteration writes a
\* constant into the BatchNorm2d it targets and reads nothing an earlier
\* iteration wrote, so a pass is the set of its targets.

\* lines 148-150: the BatchNorm2d that the generic pass fills for module m
GenericTarget(m) == IF m.type = "BatchNorm2d" THEN m.path ELSE None

\* lines 154-157: the BatchNorm2d that the residual pass zeroes for module m
\* (m.conv2[1], m.conv3[1]: 0-based indices)
ResidualTarget(m) ==
    IF m.type = "BasicBlock" THEN <<m.path[1], m.path[2], "conv2", 1 + 1>>
    ELSE IF m.type = "Bottleneck" THEN <<m.path[1], m.path[2], "conv3", 1 + 1>>
    ELSE None

\* lines 145-150: the generic initialization pass
GenericInit(w, b) ==
    LET ms == Modules
        ts == {GenericTarget(ms[j]) : j \in 1..Len(ms)} \ {None}
    IN  [weight |-> [p \in DOMAIN w |-> IF p \in ts THEN constant_(1) ELSE w[p]],
         bias |-> [p \in DOMAIN b |-> IF p \in ts THEN constant_(0) ELSE b[p]]]

\* lines 153-158: the residual initialization pass
ResidualInit(w) ==
    LET ms == Modules
        ts == {ResidualTarget(ms[j]) : j \in 1..Len(ms)} \ {None}
    IN  [p \in DOMAIN w |-> IF p \in ts THEN zeros_like(w[p]) ELSE w[p]]

\* lines 145-150
TResNet_generic_init ==
    /\ pc = "generic_init"
    /\ bn_weight' = GenericInit(bn_weight, bn_bias).weight
    /\ bn_bias' = GenericInit(bn_weight, bn_bias).bias
    /\ pc' = "residual_init"
    /\ UNCHANGED << fn, model_params, args, inplanes, planes, obj, body,
                    global_pool, num_features, head, fwdVars >>

\* A faulty order of the passes: the generic pass runs after the zeroing.
TResNet_residual_init_first ==
    /\ pc = "residual_init"
    /\ bn_weight' = GenericInit(ResidualInit(bn_weight), bn_bias).weight
    /\ pc' = "done"
    /\ UNCHANGED << fn, model_params, args, inplanes, planes, obj, body,
                    global_pool, num_features, head, bn_bias, fwdVars >>

\* lines 153-158; then __init__ returns
TResNet_residual_init ==
    /\ pc = "residual_init"
    /\ bn_weight' = ResidualInit(bn_weight)
    /\ pc' = "done"
    /\ UNCHANGED << fn, model_params, args, inplanes, planes, obj, body,
                    global_pool, num_features, head, bn_bias, fwdVars >>

\* ---------------------------------------------------- TResNet.forward
\* self.body(x): the children of body in order
RECURSIVE BodyForward(_, _)
BodyForward(names, x) ==
    IF names = <<>> THEN x
    ELSE LET y == IF IsStage(Head(names))
                  THEN StageForward(obj[Head(names)], x)
                  ELSE ApplySeq(obj[Head(names)], x)
         IN  IF IsTensor(y) THEN BodyForward(Tail(names), y) ELSE ShapeError

\* the tensor that leaves the child `name` of body when x enters body
After(name, x) ==
    LET k == CHOOSE k \in 1..Len(body) : body[k] = name
    IN  BodyForward(SubSeq(body, 1, k), x)

\* a call forward(x) is entered
forward_call(t) ==
    /\ pc = "done" /\ fpc[t] = "idle"
    /\ \E x \in Inputs(args.in_chans) :
          /\ fx' = [fx EXCEPT ![t] = x]
          /\ fin' = [fin EXCEPT ![t] = x.src]
    /\ fpc' = [fpc EXCEPT ![t] = "179"]
    /\ UNCHANGED << pc, fn, model_params, args, buildVars, embeddings, flogits,
                    lastIn, clean >>

\* line 179: x = self.body(x)
forward_body(t) ==
    /\ fpc[t] = "179"
    /\ fx' = [fx EXCEPT ![t] = BodyForward(body, fx[t])]
    /\ fpc' = [fpc EXCEPT ![t] = "180"]
    /\ UNCHANGED << pc, fn, model_params, args, buildVars, embeddings, flogits,
                    fin, lastIn, clean >>

\* A faulty line 180: the pooled features stay in a local.
forward_pool_local(t) ==
    /\ fpc[t] = "180"
    /\ fx' = [fx EXCEPT ![t] = ApplySeq(global_pool, fx[t])]
    /\ lastIn' = fin[t]
    /\ clean' = [u \in Threads |-> u = t]
    /\ fpc' = [fpc EXCEPT ![t] = "181"]
    /\ UNCHANGED << pc, fn, model_params, args, buildVars, embeddings, flogits, fin >>

\* line 180: self.embeddings = self.global_pool(x)
forward_pool(t) ==
    /\ fpc[t] = "180"
    /\ embeddings' = ApplySeq(global_pool, fx[t])
    /\ lastIn' = fin[t]
    /\ clean' = [u \in Threads |-> u = t]
    /\ fpc' = [fpc EXCEPT ![t] = "181"]
    /\ UNCHANGED << pc, fn, model_params, args, buildVars, fx, flogits, fin >>

\* line 181: logits = self.head(self.embeddings)
forward_head(t) ==
    /\ fpc[t] = "181"
    /\ flogits' = [flogits EXCEPT ![t] = ApplySeq(head, embeddings)]
    /\ fpc' = [fpc EXCEPT ![t] = "182"]
    /\ UNCHANGED << pc, fn, model_params, args, buildVars, embeddings, fx, fin,
                    lastIn, clean >>

\* line 182: return logits
forward_return(t) ==
    /\ fpc[t] = "182"
    /\ fpc' = [fpc EXCEPT ![t] = "idle"]
    /\ UNCHANGED << pc, fn, model_params, args, buildVars, embeddings, fx,
                    flogits, fin, lastIn, clean >>

Next ==
    \/ TResnetS \/ TResnetM \/ TResnetD \/ TResnetL \/ TResnetXL
    \/ TResNet_stem
    \/ TResNet_layer1 \/ TResNet_layer2 \/ TResNet_layer3 \/ TResNet_layer4
    \/ TResNet_head
    \/ TResNet_generic_init
    \/ TResNet_residual_init

Spec == Init /\ [][Next]_vars

\* One model, constructed by a direct call, then used by two callers.
InitFwd ==
    /\ Init
    /\ fn = "TResNet"
    /\ args.layers = <<1, 1, 1, 1>>
    /\ args.width_factor = One
    /\ args.in_chans = DefaultInChans

NextFwd ==
    \/ TResNet_stem
    \/ TResNet_layer1 \/ TResNet_layer2 \/ TResNet_layer3 \/ TResNet_layer4
    \/ TResNet_head
    \/ TResNet_generic_init
    \/ TResNet_residual_init
    \/ \E t \in Threads : forward_call(t)
    \/ \E t \in Threads : forward_body(t)
    \/ \E t \in Threads : forward_pool(t)
    \/ \E t \in Threads : forward_head(t)
    \/ \E t \in Threads : forward_return(t)

SpecFwd == InitFwd /\ [][NextFwd]_vars

\* ======================================================== properties
Built(k) == StageNames[k] \in DOMAIN obj

Stage(k) == obj[StageNames[k]]

\* the class, the stride and the planes multiplier __init__ gives stage k
StageBlock(k) == IF k <= 2 THEN args.first_two_layers ELSE "Bottleneck"

StageStride(k) == IF k = 1 THEN 1 ELSE 2

Pow2(k) == IF k = 0 THEN 1 ELSE IF k = 1 THEN 2 ELSE IF k = 2 THEN 4 ELSE 8

Base == IntScale(BaseWidth, args.width_factor)

Probe(c, h) == [c |-> c, h |-> h, hist |-> <<>>, src |-> 1]

\* what a block declares: its input channels, its planes, its output channels
InCh(m) == m.conv1[1].in_channels

PlanesOf(m) == m.conv2[1].out_channels

OutCh(m) == m.relu[1].channels

\* the operations a block applies to an input of the shape it declares
BlockHist(m) == BlockForward(m, Probe(InCh(m), 32)).hist

Pos(h, opname) == {j \in 1..Len(h) : h[j] = opname}

\* ------------------------------------------------------------------ C1
\* C1 as stated: every stage _make_layer returns holds exactly `blocks` blocks,
\* for every blocks >= 0.
C1_ExactlyBlocks ==
    \A k \in 1..4 : Built(k) => Len(Stage(k)) = args.layers[k]

\* C1, amended: a stage holds exactly `blocks` blocks of the class `block` when
\* blocks >= 1, and one block when blocks = 0 (the first block is appended
\* before the loop).
C1_BlocksAtLeastOne ==
    \A k \in 1..4 : Built(k) =>
        /\ Len(Stage(k)) = Max(args.layers[k], 1)
        /\ \A i \in 1..Len(Stage(k)) : Stage(k)[i].type = StageBlock(k)

C1_Witness ==
    /\ pc = "done"
    /\ \E k \in 1..4 : args.layers[k] = 0 /\ Len(Stage(k)) = 1
    /\ \E k \in 1..4 : args.layers[k] >= 2 /\ Len(Stage(k)) = args.layers[k]

\* ------------------------------------------------------------------ C2
\* C2 as stated: every block of every stage applies the SE step, and the SE
\* step is the last operation of the main branch before the addition.
C2_SEBeforeAdd ==
    \A k \in 1..4 : Built(k) =>
        \A i \in 1..Len(Stage(k)) :
            LET h == BlockHist(Stage(k)[i])
            IN  \E j \in 1..(Len(h) - 1) : h[j] = "SEModule" /\ h[j + 1] = "add"

\* C2, amended: every block starts with convolution, normalization,
\* activation and ends with the addition followed by the activation; every
\* block of layer1..layer3 applies the SE step exactly once, after conv2; in a
\* BasicBlock the SE step is the last operation before the addition, in a
\* Bottleneck the SE step is followed by conv3 (convolution, normalization)
\* and then the addition; a block of layer4 applies no SE step and its main
\* branch ends with convolution, normalization.
C2_BlockOrder ==
    \A k \in 1..4 : Built(k) =>
        \A i \in 1..Len(Stage(k)) :
            LET m == Stage(k)[i]
                h == BlockHist(m)
                n == Len(h)
            IN  /\ n >= 7
                /\ SubSeq(h, 1, 3) = <<"Conv2d", "BatchNorm2d", "FReLU">>
                /\ SubSeq(h, n - 1, n) = <<"add", "FReLU">>
                /\ Cardinality(Pos(h, "add")) = 1
                /\ IF k <= 3
                   THEN /\ Cardinality(Pos(h, "SEModule")) = 1
                        /\ IF m.type = "BasicBlock"
                           THEN SubSeq(h, n - 4, n - 1) =
                                  <<"Conv2d", "BatchNorm2d", "SEModule", "add">>
                           ELSE SubSeq(h, n - 4, n - 1) =
                                  <<"SEModule", "Conv2d", "BatchNorm2d", "add">>
                   ELSE /\ Pos(h, "SEModule") = {}
                        /\ SubSeq(h, n - 3, n - 1) = <<"Conv2d", "BatchNorm2d", "add">>

C2_Witness ==
    /\ pc = "done"
    /\ Stage(1)[1].type = "BasicBlock"
    /\ Stage(3)[1].type = "Bottleneck"
    /\ Pos(BlockHist(Stage(3)[1]), "SEModule") # {}
    /\ Pos(BlockHist(Stage(4)[1]), "SEModule") = {}

\* ------------------------------------------------------------------ C3
\* every leaf module of a block
BlockLeaves(m) ==
    m.conv1 \o m.conv2 \o (IF m.type = "Bottleneck" THEN m.conv3 ELSE <<>>)
    \o m.relu \o m.downsample \o m.se

\* the sub-module of a block that carries the block's stride
Reducer(m) == IF m.type = "BasicBlock" THEN m.conv1 ELSE m.conv2

HasOp(ms, opname) == \E j \in 1..Len(ms) : ms[j].op = opname

Stride1Convs(ms) == \A j \in 1..Len(ms) : ms[j].op = "Conv2d" => ms[j].stride = 1

\* C3: no convolution of the model has stride 2; the first block of layer2,
\* layer3 and layer4 reduces its main branch by a stride-1 3x3 convolution
\* followed by an anti-alias layer with filt_size 3 and stride 2; every other
\* block is built with stride 1 and holds no anti-alias layer.
C3_AntiAliased ==
    /\ "conv1" \in DOMAIN obj => Stride1Convs(obj["conv1"])
    /\ \A k \in 1..4 : Built(k) =>
          \A i \in 1..Len(Stage(k)) :
              LET m == Stage(k)[i]
                  r == Reducer(m)
              IN  /\ Stride1Convs(BlockLeaves(m))
                  /\ IF i = 1 /\ k >= 2
                     THEN /\ m.stride = 2
                          /\ Len(r) = 4
                          /\ r[1].op = "Conv2d" /\ r[1].kernel_size = 3 /\ r[1].stride = 1
                          /\ r[4] = AntiAliasDownsampleLayer(PlanesOf(m), 3, 2)
                     ELSE /\ m.stride = 1
                          /\ ~HasOp(BlockLeaves(m), "AntiAliasDownsampleLayer")

C3_Witness ==
    /\ pc = "done"
    /\ \A k \in 1..4 : Len(Stage(k)) >= 2
    /\ Stage(2)[1].type = "BasicBlock"
    /\ HasOp(Stage(2)[1].conv1, "AntiAliasDownsampleLayer")
    /\ HasOp(Stage(3)[1].conv2, "AntiAliasDownsampleLayer")

\* ------------------------------------------------------------------ C4
\* the tensor that leaves stage k
AfterStage(k, x) == After(StageNames[k], x)

\* C4: for an input of side H divisible by 32 (224 among them) the stem leaves in_chans*16
\* channels of side H/4, conv1 keeps the side, layer1..layer4 leave sides H/4,
\* H/8, H/16, H/32, and inside layer2..layer4 the first block halves the side
\* and every other block keeps it.
C4_FeatureMapSides ==
    pc = "done" =>
        \A x \in Inputs(args.in_chans) \cup {InputOf(7)} :
            LET s2d == After("SpaceToDepth", x)
                c1 == After("conv1", x)
                out == [k \in 1..4 |-> AfterStage(k, x)]
                in == [k \in 1..4 |-> IF k = 1 THEN c1 ELSE out[k - 1]]
            IN  /\ s2d.c = args.in_chans * 16
                /\ s2d.h * 4 = x.h
                /\ c1.h * 4 = x.h
                /\ \A k \in 1..4 :
                      /\ out[k].h * (4 * Pow2(k - 1)) = x.h
                      /\ \A i \in 1..Len(Stage(k)) :
                            LET xin == StageInput(Stage(k), i, in[k])
                                y == BlockForward(Stage(k)[i], xin)
                            IN  /\ IsTensor(y)
                                /\ IF i = 1 /\ k >= 2
                                   THEN y.h * 2 = xin.h
                                   ELSE y.h = xin.h

C4_Witness ==
    /\ pc = "done"
    /\ \A k \in 1..4 : args.layers[k] >= 2
    /\ InputOf(7).h = 224
    /\ AfterStage(1, InputOf(7)).h = 56 /\ AfterStage(2, InputOf(7)).h = 28
    /\ AfterStage(3, InputOf(7)).h = 14 /\ AfterStage(4, InputOf(7)).h = 7
    /\ \E x \in Inputs(args.in_chans) :
          /\ x.h = 64
          /\ AfterStage(1, x).h = 16 /\ AfterStage(2, x).h = 8
          /\ AfterStage(3, x).h = 4 /\ AfterStage(4, x).h = 2

\* ------------------------------------------------------------------ C5
\* the leaf modules of a block's main branch, in the order forward applies them
MainBranch(name, i, m) ==
    SeqModules(name, i, "conv1", m.conv1)
    \o SeqModules(name, i, "conv2", m.conv2)
    \o SeqModules(name, i, "se", m.se)
    \o (IF m.type = "Bottleneck" THEN SeqModules(name, i, "conv3", m.conv3) ELSE <<>>)

\* the path of the last BatchNorm2d on the main branch of block i of stage k
LastBN(k, i) ==
    LET mb == MainBranch(StageNames[k], i, Stage(k)[i])
        j == CHOOSE j \in Pos([n \in 1..Len(mb) |-> mb[n].type], "BatchNorm2d") :
                \A n \in Pos([q \in 1..Len(mb) |-> mb[q].type], "BatchNorm2d") : n <= j
    IN  mb[j].path

LastBNs == UNION {{LastBN(k, i) : i \in 1..Len(Stage(k))} : k \in 1..4}

\* C5: when __init__ has returned, the scale of the last BatchNorm2d on the main
\* branch of every block is zero, the scale of every other BatchNorm2d of the
\* model is one, and every BatchNorm2d bias is zero.
C5_ResidualZeroInit ==
    pc = "done" =>
        /\ DOMAIN bn_weight = BNPaths(Modules)
        /\ DOMAIN bn_bias = BNPaths(Modules)
        /\ LastBNs \subseteq DOMAIN bn_weight
        /\ \A p \in DOMAIN bn_weight :
              /\ bn_bias[p] = "zeros"
              /\ bn_weight[p] = IF p \in LastBNs THEN "zeros" ELSE "ones"

C5_Witness ==
    /\ pc = "done"
    /\ \A k \in 1..4 : Len(Stage(k)) >= 2
    /\ bn_weight[<<"layer1", 1, "conv2", 2>>] = "zeros"
    /\ bn_weight[<<"layer4", 2, "conv3", 2>>] = "zeros"
    /\ bn_weight[<<"layer2", 1, "downsample", 3>>] = "ones"
    /\ bn_weight[<<"conv1", 0, "conv1", 2>>] = "ones"


\* ------------------------------------------------------------------ C6
FactoryLayers(f) ==
    CASE f = "TResnetS" -> <<3, 4, 6, 3>>
      [] f = "TResnetM" -> <<3, 4, 11, 3>>
      [] f = "TResnetD" -> <<3, 6, 14, 3>>
      [] f = "TResnetL" -> <<3, 4, 23, 3>>
      [] f = "TResnetXL" -> <<3, 8, 34, 5>>

FactoryBlock(f) ==
    IF f = "TResnetS" \/ f = "TResnetM" THEN "BasicBlock" ELSE "Bottleneck"

\* C6: a factory called with a mapping that holds 'num_classes' needs no other
\* key: it never raises KeyError, and the model it returns has 3 input
\* channels, model_params['num_classes'] logits, width factor 1.0, the stage
\* block counts of its table row and its block class in layer1 and layer2.
C6_FactoriesNeedOnlyNumClasses ==
    (fn \in Factories /\ Has("num_classes")) =>
        /\ pc # "KeyError"
        /\ pc = "done" =>
              /\ obj["conv1"][1].in_channels = 3 * 16
              /\ head[1].out_features = model_params["num_classes"]
              /\ args.width_factor = One /\ planes = 64
              /\ \A k \in 1..4 : Len(Stage(k)) = FactoryLayers(fn)[k]
              /\ \A k \in 1..2 : \A i \in 1..Len(Stage(k)) :
                    Stage(k)[i].type = FactoryBlock(fn)

\* ------------------------------------------------------------------ C7
\* the channel count that leaves a built child of body, fed what it declares
OutChannels(name) ==
    IF IsStage(name)
    THEN StageForward(obj[name], Probe(InCh(obj[name][1]), 32)).c
    ELSE ApplySeq(obj[name], Probe(obj[name][1].in_channels, 32)).c

\* C7: self.inplanes is the output channel count of the module built last,
\* at the start of every _make_layer call and after it, where it equals
\* planes * block.expansion; every block declares the input channel count
\* that the module feeding it puts out; num_features, the in_features of fc,
\* is base*8*4 and is the output channel count of layer4.
C7_ChannelChain ==
    /\ pc = "layer1" => inplanes = Base /\ inplanes = OutChannels("conv1")
    /\ \A k \in 1..4 : Built(k) =>
          /\ OutChannels(StageNames[k]) = Base * Pow2(k - 1) * expansion(StageBlock(k))
          /\ pc = (IF k < 4 THEN StageNames[k + 1] ELSE "head") =>
                inplanes = OutChannels(StageNames[k])
          /\ InCh(Stage(k)[1]) =
                OutChannels(IF k = 1 THEN "conv1" ELSE StageNames[k - 1])
          /\ \A i \in 2..Len(Stage(k)) : InCh(Stage(k)[i]) = OutCh(Stage(k)[i - 1])
    /\ pc = "done" =>
          /\ num_features = Base * 8 * Bottleneck_expansion
          /\ num_features = OutChannels("layer4")
          /\ head[1].in_features = num_features
          /\ \A x \in Inputs(args.in_chans) :
                /\ IsTensor(After("layer4", x))
                /\ After("layer4", x).c = num_features

C7_Witness ==
    /\ pc = "done"
    /\ args.first_two_layers = "Bottleneck"
    /\ args.width_factor # One
    /\ \A k \in 1..4 : args.layers[k] >= 2
    /\ InCh(Stage(2)[1]) = OutChannels("layer1")
    /\ OutChannels("layer1") = 4 * Base

\* ------------------------------------------------------------------ C8
\* the input sides a block is probed with: the sides 32*n and two odd-even ones
ProbeSides == {32 * n : n \in 1..MaxSideK} \cup {7, 14}

\* C8: in every block the shortcut tensor and the main-branch tensor that are
\* added have planes*expansion channels and the same side, the block's
\* input side or half of it; a block has a downsample module exactly when it is
\* the first block of its stage and (stride != 1 or inplanes !=
\* planes*expansion); the module is a 1x1 stride-1 convolution and a
\* BatchNorm2d to planes*expansion channels, preceded by a 2x2 stride-2 average
\* pool exactly when the stage stride is 2; every other block adds its input
\* and has inplanes = planes*expansion and stride 1.
C8_ShortcutMatches ==
    \A k \in 1..4 : Built(k) =>
        \A i \in 1..Len(Stage(k)) :
            LET m == Stage(k)[i]
                pe == PlanesOf(m) * expansion(m.type)
                proj == conv2d_BN(InCh(m), pe, 1, 1)
            IN  /\ \A h \in ProbeSides :
                      LET x == Probe(InCh(m), h)
                          res == Residual(m, x)
                          main == BlockMain(m, x)
                      IN  /\ IsTensor(res) /\ IsTensor(main)
                          /\ res.c = pe /\ main.c = pe
                          /\ res.h = main.h
                          /\ res.h = (IF m.stride = 2 THEN (h + 1) \div 2 ELSE h)
                /\ m.downsample # None <=>
                      (i = 1 /\ (StageStride(k) # 1 \/ InCh(m) # pe))
                /\ m.downsample # None =>
                      m.downsample = IF StageStride(k) = 2
                                     THEN <<AvgPool2d(2, 2, TRUE)>> \o proj
                                     ELSE proj
                /\ m.downsample = None => InCh(m) = pe /\ m.stride = 1

C8_Witness ==
    /\ pc = "done"
    /\ args.first_two_layers = "Bottleneck"
    /\ Len(Stage(1)[1].downsample) = 2
    /\ Len(Stage(2)[1].downsample) = 3
    /\ Len(Stage(2)) >= 2 /\ Stage(2)[2].downsample = None

\* ------------------------------------------------------------------ C9
\* the tensor the SE module of block m is applied to
SEInput(m) == ApplySeq(m.conv2, ApplySeq(m.conv1, Probe(InCh(m), 32)))

\* C9: every block of layer1..layer3 has an SE module and no block of layer4
\* has one; the SE module's channel argument is the channel count of the
\* tensor it is applied to (planes*expansion = planes in a BasicBlock, planes
\* in a Bottleneck); its reduced width is max(planes*expansion // 4, 64) in a
\* BasicBlock and max(planes*expansion // 8, 64) in a Bottleneck, never below 64.
C9_SEPlacement ==
    \A k \in 1..4 : Built(k) =>
        \A i \in 1..Len(Stage(k)) :
            LET m == Stage(k)[i]
                pe == PlanesOf(m) * expansion(m.type)
            IN  IF k = 4 THEN m.se = None
                ELSE /\ Len(m.se) = 1
                     /\ m.se[1].op = "SEModule"
                     /\ IsTensor(SEInput(m))
                     /\ m.se[1].channels = SEInput(m).c
                     /\ m.se[1].channels = PlanesOf(m)
                     /\ m.type = "BasicBlock" =>
                           /\ m.se[1].channels = pe
                           /\ m.se[1].reduction_channels = Max(pe \div 4, 64)
                     /\ m.type = "Bottleneck" =>
                           m.se[1].reduction_channels = Max(pe \div 8, 64)
                     /\ m.se[1].reduction_channels >= 64

C9_Witness ==
    /\ pc = "done"
    /\ Stage(1)[1].se[1].reduction_channels > Stage(1)[1].se[1].channels
    /\ Stage(3)[1].se[1].channels = PlanesOf(Stage(3)[1])
    /\ Stage(4)[1].se = None

\* ----------------------------------------------------------------- C10
\* the pooled features of input sample k
Pooled(k) == ApplySeq(global_pool, BodyForward(body, InputOf(k)))

\* C10: forward runs body, global pooling, head; self.embeddings holds the
\* pooled features of the call that last completed line 180; the logits a call
\* is about to return are head applied to the pooled features of its own input
\* whenever no other call ran line 180 between its lines 180 and 181.
C10_Forward ==
    /\ embeddings # NoTensor => embeddings = Pooled(lastIn)
    /\ \A t \in Threads :
          (fpc[t] = "182" /\ clean[t]) =>
              /\ flogits[t] = ApplySeq(head, Pooled(fin[t]))
              /\ flogits[t].src = fin[t]
              /\ flogits[t].c = args.num_classes
              /\ LET n == Len(flogits[t].hist)
                 IN  /\ n >= 2
                     /\ SubSeq(flogits[t].hist, n - 1, n) = <<"FastAvgPool2d", "Linear">>

\* two calls interleave: one returns logits of the other's input, and
\* self.embeddings read after it returned holds the other's features
C10_Witness ==
    \E t \in Threads :
        /\ fpc[t] = "182"
        /\ ~clean[t]
        /\ flogits[t].src # fin[t]
        /\ flogits[t].c = args.num_classes
        /\ embeddings.src # fin[t]

====
